---- MODULE Spec2Model ----
(***************************************************************************)
(* Model of the Krakow real-estate transaction pipeline:                   *)
(*   download_data.py : paginated fetch, clean_data, aggregate_for_map,    *)
(*                      create_map_html, main                              *)
(*   create_map.py    : aggregate_by_unit_year                             *)
(*                                                                         *)
(* Python values are modelled as follows.                                  *)
(*   dict of a JSON object  : a TLA+ record/function; a missing key is a   *)
(*                            name outside its DOMAIN (see Get).           *)
(*   dict used as a mapping : a sequence of [key, val] entries in          *)
(*                            insertion order (Python dicts keep it).      *)
(*   list                   : a sequence.                                  *)
(*   None (objects)         : PyNone.   JSON null in a number: JsonNull.   *)
(* The unit area ("st_area(shape)" / powierzchnia) is a pass-through of    *)
(* the first record of a group and is not modelled.                        *)
(***************************************************************************)
EXTENDS Integers, Sequences, FiniteSets, TLC

\* ------------------------------------------------------------ constants
MIN_PRICE_M2 == 5000
MIN_TRANSACTIONS_PER_YEAR == 5
batch_size == 2000

\* ------------------------------------------------------------ bounds
\* longest input collection handed to the cleaner in SpecClean
MaxLen == 3
\* most records in one page of the remote service's answer in Spec
MaxPageLen == 1
\* most records in one input file of create_map.py in SpecMap
MaxFileLen == 2

\* ------------------------------------------------------------ Python values
PyNone == [type |-> "NoneType"]
JsonNull == -1

\* dict.get(k, default)
Get(d, k, default) == IF k \in DOMAIN d THEN d[k] ELSE default

G1 == [type |-> "Polygon", id |-> 1]
G2 == [type |-> "Polygon", id |-> 2]

\* The features the remote service may answer with.
R1 == [properties |-> [nazwa_jedn |-> "A", data_zaw_year |-> 2024,
                       sr_cena_m2 |-> 8000, lkl_count |-> 3], geometry |-> G1]
R2 == [properties |-> [nazwa_jedn |-> "A", data_zaw_year |-> 2024,
                       sr_cena_m2 |-> 12000, lkl_count |-> 4], geometry |-> G1]
R3 == [properties |-> [nazwa_jedn |-> "A", data_zaw_year |-> 2024,
                       sr_cena_m2 |-> 3000, lkl_count |-> 10], geometry |-> G1]
R4 == [properties |-> [nazwa_jedn |-> "A", data_zaw_year |-> 2024,
                       sr_cena_m2 |-> 8001, lkl_count |-> 1], geometry |-> G2]
R5 == [properties |-> [nazwa_jedn |-> "B", data_zaw_year |-> 2024,
                       sr_cena_m2 |-> 5000, lkl_count |-> 5], geometry |-> G2]
R6 == [properties |-> [nazwa_jedn |-> "B", data_zaw_year |-> 2024,
                       sr_cena_m2 |-> 4999, lkl_count |-> 4], geometry |-> G2]
R7 == [properties |-> [nazwa_jedn |-> "B"]]
R8 == [properties |-> [nazwa_jedn |-> "A", data_zaw_year |-> 2024,
                       sr_cena_m2 |-> JsonNull, lkl_count |-> 3], geometry |-> G1]
R9 == [properties |-> [data_zaw_year |-> 2023,
                       sr_cena_m2 |-> 9000, lkl_count |-> 5], geometry |-> PyNone]
R10 == [properties |-> [nazwa_jedn |-> "B", data_zaw_year |-> 2024,
                        sr_cena_m2 |-> 0, lkl_count |-> 6], geometry |-> G1]

Records == {R1, R2, R3, R4, R5, R6, R7, R8, R9, R10}
\* The features a page of Spec may hold (SpecClean draws from all of Records).
FetchRecords == {R1, R5, R8}

\* sequences over S of length lo..hi
SeqsOf(S, lo, hi) == UNION {[1..n -> S] : n \in lo..hi}

FeatureCollection(features) == [type |-> "FeatureCollection", features |-> features]

RECURSIVE SumSeq(_)
SumSeq(s) == IF s = <<>> THEN 0 ELSE Head(s) + SumSeq(Tail(s))

\* ------------------------------------------------------------ mappings
DictHas(d, k) == \E i \in 1..Len(d) : d[i].key = k
DictIdx(d, k) == CHOOSE i \in 1..Len(d) : d[i].key = k
DictGet(d, k) == d[DictIdx(d, k)].val
DictKeys(d) == {d[i].key : i \in 1..Len(d)}
\* d[k] = v : a new key goes last, an existing key keeps its position
DictSet(d, k, v) ==
    IF DictHas(d, k)
    THEN [d EXCEPT ![DictIdx(d, k)] = [key |-> k, val |-> v]]
    ELSE Append(d, [key |-> k, val |-> v])

\* ------------------------------------------------------------ clean_data
PriceOf(f) == Get(f.properties, "sr_cena_m2", 0)

\* None >= int raises TypeError
CleanRaises(features) == \E i \in 1..Len(features) : PriceOf(features[i]) = JsonNull

\* variant: the price is tested against zero, not against the floor
KeepsPrice_NonNegative(f, min_price) == PriceOf(f) >= 0
\* variant: the floor itself is rejected
KeepsPrice_Strict(f, min_price) == PriceOf(f) > min_price
\* if price >= MIN_PRICE_M2
KeepsPrice(f, min_price) == PriceOf(f) >= min_price

cleaned_features(features, min_price) ==
    SelectSeq(features, LAMBDA f : KeepsPrice(f, min_price))

CleanKey(f) == <<Get(f.properties, "nazwa_jedn", "Nieznana"),
                 Get(f.properties, "data_zaw_year", 2023)>>

CountOf(f) == Get(f.properties, "lkl_count", 0)

\* one iteration of the grouping loop
StatsStep(stats, f) ==
    LET key == CleanKey(f)
        cur == IF DictHas(stats, key) THEN DictGet(stats, key)
               ELSE [transactions |-> 0, features |-> <<>>]
    IN  DictSet(stats, key,
                [transactions |-> cur.transactions + CountOf(f),
                 features |-> Append(cur.features, f)])

RECURSIVE StatsFold(_, _)
StatsFold(stats, features) ==
    IF features = <<>> THEN stats
    ELSE StatsFold(StatsStep(stats, Head(features)), Tail(features))

unit_year_stats(features) == StatsFold(<<>>, features)

\* variant: the records are counted, not their lkl_count
GroupKept_RecordCount(data, min_transactions) == Len(data.features) >= min_transactions
\* if data["transactions"] >= MIN_TRANSACTIONS_PER_YEAR
GroupKept(data, min_transactions) == data.transactions >= min_transactions

RECURSIVE FinalFold(_, _)
FinalFold(stats, min_transactions) ==
    IF stats = <<>> THEN <<>>
    ELSE (IF GroupKept(Head(stats).val, min_transactions)
          THEN Head(stats).val.features ELSE <<>>)
         \o FinalFold(Tail(stats), min_transactions)

\* variant: each group is put in front of the earlier ones
final_features_Prepend(stats, min_transactions) ==
    FinalFold([i \in 1..Len(stats) |-> stats[Len(stats) + 1 - i]], min_transactions)
\* for key, data in unit_year_stats.items(): final_features.extend(...)
final_features(stats, min_transactions) == FinalFold(stats, min_transactions)

\* removed_price: one for every record the price test turns away
removed_price(features, min_price) ==
    Len(SelectSeq(features, LAMBDA f : ~KeepsPrice(f, min_price)))

\* variant: a group turned away counts as one record
RemovedOfGroup_One(data) == 1
\* removed_low_count += len(data["features"])
RemovedOfGroup(data) == Len(data.features)

RECURSIVE removed_low_count(_, _)
removed_low_count(stats, min_transactions) ==
    IF stats = <<>> THEN 0
    ELSE (IF GroupKept(Head(stats).val, min_transactions)
          THEN 0 ELSE RemovedOfGroup(Head(stats).val))
         + removed_low_count(Tail(stats), min_transactions)

clean_data_with(geojson, min_price, min_transactions) ==
    FeatureCollection(
        final_features(unit_year_stats(cleaned_features(geojson.features, min_price)),
                       min_transactions))

clean_data(geojson) == clean_data_with(geojson, MIN_PRICE_M2, MIN_TRANSACTIONS_PER_YEAR)

\* ------------------------------------------------------------ aggregation
\* Python truthiness of a price: None and 0 are falsy
Truthy(price) == price # JsonNull /\ price # 0

\* if props.get("sr_cena_m2")
AppendsPrice(props) == "sr_cena_m2" \in DOMAIN props /\ Truthy(props.sr_cena_m2)

\* variant: the count is assigned, not added
AddCount_Overwrite(transakcje, props) == Get(props, "lkl_count", 0)
\* units[key]["transakcje"] += props.get("lkl_count", 0)
AddCount(transakcje, props) == transakcje + Get(props, "lkl_count", 0)

\* variant: a group created without a geometry takes the geometry of a later
\* record of its key
AggStep_FillGeometry(units, f, props, market_name, default_year) ==
    LET unit_name == Get(props, "nazwa_jedn", "Nieznana")
        year == Get(props, "data_zaw_year", default_year)
        key == <<unit_name, year>>
        cur == IF DictHas(units, key) THEN DictGet(units, key)
               ELSE [nazwa |-> unit_name, rok |-> year, rynek |-> market_name,
                     transakcje |-> 0, ceny_m2 |-> <<>>,
                     geometry |-> Get(f, "geometry", PyNone)]
    IN  DictSet(units, key,
                [cur EXCEPT !.transakcje = AddCount(cur.transakcje, props),
                            !.ceny_m2 = IF AppendsPrice(props)
                                        THEN Append(cur.ceny_m2, props.sr_cena_m2)
                                        ELSE cur.ceny_m2,
                            !.geometry = IF cur.geometry = PyNone
                                         THEN Get(f, "geometry", PyNone)
                                         ELSE cur.geometry])

\* one iteration of the aggregation loop (both scripts; they differ in the
\* default year and in how the properties are read)
AggStep(units, f, props, market_name, default_year) ==
    LET unit_name == Get(props, "nazwa_jedn", "Nieznana")
        year == Get(props, "data_zaw_year", default_year)
        key == <<unit_name, year>>
        cur == IF DictHas(units, key) THEN DictGet(units, key)
               ELSE [nazwa |-> unit_name, rok |-> year, rynek |-> market_name,
                     transakcje |-> 0, ceny_m2 |-> <<>>,
                     geometry |-> Get(f, "geometry", PyNone)]
    IN  DictSet(units, key,
                [cur EXCEPT !.transakcje = AddCount(cur.transakcje, props),
                            !.ceny_m2 = IF AppendsPrice(props)
                                        THEN Append(cur.ceny_m2, props.sr_cena_m2)
                                        ELSE cur.ceny_m2])

RECURSIVE AggForMapFold(_, _, _)
AggForMapFold(units, features, market_name) ==
    IF features = <<>> THEN units
    ELSE AggForMapFold(AggStep(units, Head(features), Head(features).properties,
                               market_name, 2023),
                       Tail(features), market_name)

aggregate_for_map(geojson, market_name) ==
    AggForMapFold(<<>>, geojson.features, market_name)

EmptyDict == [k \in {} |-> 0]

RECURSIVE AggByUnitYearFold(_, _, _)
AggByUnitYearFold(units, features, market_name) ==
    IF features = <<>> THEN units
    ELSE AggByUnitYearFold(AggStep(units, Head(features),
                                   Get(Head(features), "properties", EmptyDict),
                                   market_name, 2024),
                           Tail(features), market_name)

aggregate_by_unit_year(geojson, market_name) ==
    AggByUnitYearFold(<<>>, geojson.features, market_name)

\* ------------------------------------------------------------ create_map_html
\* round(num / den, 0): Python rounds halves to the even neighbour
RoundHalfEven(num, den) ==
    LET q == num \div den
        r == num % den
    IN  IF 2 * r < den THEN q
        ELSE IF 2 * r > den THEN q + 1
        ELSE IF q % 2 = 0 THEN q ELSE q + 1

\* variant: the price sum is divided by the transaction count
AvgRendered_Weighted(unit) ==
    IF unit.ceny_m2 # <<>> /\ unit.transakcje > 0
    THEN RoundHalfEven(SumSeq(unit.ceny_m2), unit.transakcje) ELSE 0
\* avg_price = sum(ceny_m2) / len(ceny_m2) if ceny_m2 else 0; round(avg_price, 0)
AvgRendered(unit) ==
    IF unit.ceny_m2 # <<>>
    THEN RoundHalfEven(SumSeq(unit.ceny_m2), Len(unit.ceny_m2)) ELSE 0

RenderUnit(unit, market) ==
    [type |-> "Feature",
     geometry |-> unit.geometry,
     properties |-> [nazwa |-> unit.nazwa, rok |-> unit.rok, rynek |-> market,
                     transakcje |-> unit.transakcje,
                     srednia_cena_m2 |-> AvgRendered(unit)]]

RECURSIVE RenderFold(_, _)
RenderFold(data, market) ==
    IF data = <<>> THEN <<>>
    ELSE (IF Head(data).val.geometry # PyNone
          THEN <<RenderUnit(Head(data).val, market)>> ELSE <<>>)
         \o RenderFold(Tail(data), market)

create_map_html(pierwotny_data, wtorny_data) ==
    RenderFold(pierwotny_data, "pierwotny") \o RenderFold(wtorny_data, "wtorny")

\* variant: a secondary group whose key the primary mapping holds is left out
create_map_py_html_Merged(pierwotny_data, wtorny_data) ==
    RenderFold(pierwotny_data, "pierwotny")
        \o RenderFold(SelectSeq(wtorny_data,
                                LAMBDA e : ~DictHas(pierwotny_data, e.key)), "wtorny")

\* create_map.py's create_map_html: the same loop, without the area
create_map_py_html(pierwotny_data, wtorny_data) ==
    RenderFold(pierwotny_data, "pierwotny") \o RenderFold(wtorny_data, "wtorny")

\* ------------------------------------------------------------ fetcher
Markets == <<"pierwotny", "wtorny">>

\* what the count-only query may report
TotalCounts == {0, 1, 2000, 4000, 5000}
\* JSON bodies of the count-only query; an error body carries no "count"
CountBodies == {[count |-> c] : c \in TotalCounts} \cup {[error |-> "400"]}
\* JSON bodies of a page query; an error body carries no "features"
PageBodies == {[features |-> s] : s \in SeqsOf(FetchRecords, 0, MaxPageLen)}
                  \cup {[error |-> "400"]}

\* response.json().get("count", 0)
get_record_count(body) == Get(body, "count", 0)

\* if "features" in geojson
HasFeatures(geojson) == "features" \in DOMAIN geojson

\* variant: a record already collected is not added again
MergeExtend_Dedup(all, features) ==
    all \o SelectSeq(features, LAMBDA f : \A i \in 1..Len(all) : all[i] # f)
\* all_features.extend(geojson["features"])
MergeExtend(all, features) == all \o features

RECURSIVE MergeFold(_, _)
MergeFold(all, features_list) ==
    IF features_list = <<>> THEN all
    ELSE MergeFold(IF HasFeatures(Head(features_list))
                   THEN MergeExtend(all, Head(features_list).features)
                   ELSE all,
                   Tail(features_list))

merge_geojson(features_list) == FeatureCollection(MergeFold(<<>>, features_list))

\* fetched = len(geojson.get("features", []))
Fetched(geojson) == Len(Get(geojson, "features", <<>>))

\* variant: the offset advances by the records received
NextOffset_Fetched(off, geojson) == off + Fetched(geojson)
\* variant: the offset stays where it is
NextOffset_Stuck(off, geojson) == off
\* offset += batch_size
NextOffset(off, geojson) == off + batch_size

\* variant: an empty page does not end the loop
StopsOnEmpty_Never(geojson) == FALSE
\* if fetched == 0: break
StopsOnEmpty(geojson) == Fetched(geojson) = 0

\* ------------------------------------------------------------ state
VARIABLES
    pc,             \* position in main / download_market_data
    market,         \* index in Markets of the market being processed
    total_count,    \* download_market_data: total_count
    offset,         \* download_market_data: offset
    all_features,   \* download_market_data: the page bodies received
    wire,           \* the page requests of this market and their outcomes
    errors,         \* the offsets whose failure was printed for this market
    geojson,        \* main: what download_market_data returned (raw file)
    cleaned,        \* main: what clean_data returned (clean file)
    all_pierwotny,  \* main: aggregated primary market
    all_wtorny,     \* main: aggregated secondary market
    map_features,   \* create_map_html: all_features embedded in the document
    recleaned,      \* SpecClean: clean_data applied to cleaned
    units_loaded,   \* SpecClean: aggregate_by_unit_year applied to geojson
    map_loaded,     \* SpecClean: create_map.py's create_map_html of units_loaded
    exception,      \* the exception that ended main, "" while there is none
    files,          \* create_map.main: the two input files (PyNone: no file)
    loaded,         \* create_map.main: the files load_geojson has read
    pierwotny_agg,  \* create_map.main: pierwotny_agg
    wtorny_agg,     \* create_map.main: wtorny_agg
    output_file,    \* create_map.main: the features of the document written
    fold_i,         \* SpecFold: records the running loop has processed
    fold_units      \* SpecFold: the mapping the running loop has built

vars == <<pc, market, total_count, offset, all_features, wire, errors, geojson,
          cleaned, all_pierwotny, all_wtorny, map_features, recleaned, units_loaded,
          map_loaded, exception, files, loaded, pierwotny_agg, wtorny_agg, output_file,
          fold_i, fold_units>>

fetchVars == <<total_count, offset, all_features, wire, errors>>
dataVars == <<cleaned, all_pierwotny, all_wtorny, map_features>>
probeVars == <<recleaned, units_loaded, map_loaded>>
mapVars == <<files, loaded, pierwotny_agg, wtorny_agg, output_file>>
foldVars == <<fold_i, fold_units>>
otherVars == <<probeVars, mapVars, foldVars>>

\* the state of create_map.py and of the loop probes before they run
OthersIdle ==
    /\ files = [pierwotny |-> PyNone, wtorny |-> PyNone]
    /\ loaded = <<>>
    /\ pierwotny_agg = <<>>
    /\ wtorny_agg = <<>>
    /\ output_file = PyNone
    /\ fold_i = 0
    /\ fold_units = <<>>

Init ==
    /\ pc = "count"
    /\ market = 1
    /\ total_count = 0
    /\ offset = 0
    /\ all_features = <<>>
    /\ wire = <<>>
    /\ errors = <<>>
    /\ geojson = PyNone
    /\ cleaned = PyNone
    /\ all_pierwotny = <<>>
    /\ all_wtorny = <<>>
    /\ map_features = <<>>
    /\ recleaned = PyNone
    /\ units_loaded = <<>>
    /\ map_loaded = <<>>
    /\ exception = ""
    /\ OthersIdle

\* ------------------------------------------------------------ download_market_data
\* get_record_count raises (raise_for_status); nothing catches it
GetRecordCountFails ==
    /\ pc = "count"
    /\ pc' = "crashed"
    /\ exception' = "RequestException"
    /\ UNCHANGED <<market, fetchVars, geojson, dataVars, otherVars>>

\* variant: no early return on a zero count
GetRecordCountZero_NoCheck ==
    /\ pc = "count"
    /\ \E body \in CountBodies :
          /\ get_record_count(body) = 0
          /\ total_count' = 0
    /\ all_features' = <<>>
    /\ offset' = 0
    /\ pc' = "merge"
    /\ UNCHANGED <<market, wire, errors, geojson, dataVars, otherVars, exception>>

\* total_count == 0: return None
GetRecordCountZero ==
    /\ pc = "count"
    /\ \E body \in CountBodies :
          /\ get_record_count(body) = 0
          /\ total_count' = 0
    /\ geojson' = PyNone
    /\ pc' = "process"
    /\ UNCHANGED <<market, offset, all_features, wire, errors, dataVars, otherVars, exception>>

GetRecordCountPositive ==
    /\ pc = "count"
    /\ \E body \in CountBodies :
          /\ get_record_count(body) # 0
          /\ total_count' = get_record_count(body)
    /\ all_features' = <<>>
    /\ offset' = 0
    /\ pc' = IF 0 < total_count' THEN "page" ELSE "merge"
    /\ UNCHANGED <<market, wire, errors, geojson, dataVars, otherVars, exception>>

\* variant: the loop goes on after a failed request
DownloadPageFails_Retry ==
    /\ pc = "page"
    /\ wire' = Append(wire, [offset |-> offset, ok |-> FALSE, body |-> PyNone])
    /\ errors' = Append(errors, offset)
    /\ pc' = "page"
    /\ UNCHANGED <<market, total_count, offset, all_features, geojson, dataVars,
                   otherVars, exception>>

\* one iteration of the while loop: download_features raises RequestException
DownloadPageFails ==
    /\ pc = "page"
    /\ wire' = Append(wire, [offset |-> offset, ok |-> FALSE, body |-> PyNone])
    /\ errors' = Append(errors, offset)
    /\ pc' = "merge"
    /\ UNCHANGED <<market, total_count, offset, all_features, geojson, dataVars,
                   otherVars, exception>>

\* one iteration of the while loop: download_features returns a body
DownloadPage ==
    /\ pc = "page"
    /\ \E body \in PageBodies :
          /\ wire' = Append(wire, [offset |-> offset, ok |-> TRUE, body |-> body])
          /\ all_features' = Append(all_features, body)
          /\ IF StopsOnEmpty(body)
             THEN /\ offset' = offset
                  /\ pc' = "merge"
             ELSE /\ offset' = NextOffset(offset, body)
                  /\ pc' = IF offset' < total_count THEN "page" ELSE "merge"
    /\ UNCHANGED <<market, total_count, errors, geojson, dataVars, otherVars, exception>>

\* merged = merge_geojson(all_features); return merged
MergeAndReturn ==
    /\ pc = "merge"
    /\ geojson' = merge_geojson(all_features)
    /\ pc' = "process"
    /\ UNCHANGED <<market, fetchVars, dataVars, otherVars, exception>>

\* ------------------------------------------------------------ main
\* The next iteration of the loop over BASE_URLS, or the end of the loop.
\* The locals of a finished iteration (geojson, cleaned and those of
\* download_market_data) are never read again before they are reassigned:
\* the next iteration starts from their initial values.
AfterMarket(new_cleaned) ==
    IF market < Len(Markets)
    THEN /\ market' = market + 1
         /\ pc' = "count"
         /\ total_count' = 0
         /\ offset' = 0
         /\ all_features' = <<>>
         /\ wire' = <<>>
         /\ errors' = <<>>
         /\ geojson' = PyNone
         /\ cleaned' = PyNone
    ELSE /\ pc' = "render"
         /\ cleaned' = new_cleaned
         /\ UNCHANGED <<market, fetchVars, geojson>>

\* if geojson and geojson["features"]
Processes(g) == g # PyNone /\ g.features # <<>>

\* the market's body of the loop is skipped
ProcessMarketSkip ==
    /\ pc = "process"
    /\ ~Processes(geojson)
    /\ AfterMarket(cleaned)
    /\ UNCHANGED <<all_pierwotny, all_wtorny, map_features, otherVars, exception>>

\* clean_data raises TypeError on a null price; nothing catches it
ProcessMarketRaises ==
    /\ pc = "process"
    /\ Processes(geojson)
    /\ CleanRaises(geojson.features)
    /\ pc' = "crashed"
    /\ exception' = "TypeError"
    /\ UNCHANGED <<market, fetchVars, geojson, dataVars, otherVars>>

\* clean_data, then aggregate_for_map into the market's mapping
ProcessMarket ==
    /\ pc = "process"
    /\ Processes(geojson)
    /\ ~CleanRaises(geojson.features)
    /\ LET new_cleaned == clean_data(geojson)
       IN  /\ IF Markets[market] = "pierwotny"
              THEN /\ all_pierwotny' = aggregate_for_map(new_cleaned, Markets[market])
                   /\ UNCHANGED all_wtorny
              ELSE /\ all_wtorny' = aggregate_for_map(new_cleaned, Markets[market])
                   /\ UNCHANGED all_pierwotny
           /\ AfterMarket(new_cleaned)
    /\ UNCHANGED <<map_features, otherVars, exception>>

\* create_map_html(all_pierwotny, all_wtorny, map_file)
GenerateMap ==
    /\ pc = "render"
    /\ map_features' = create_map_html(all_pierwotny, all_wtorny)
    /\ pc' = "done"
    /\ UNCHANGED <<market, fetchVars, geojson, cleaned, all_pierwotny, all_wtorny,
                   otherVars, exception>>

Next ==
    \/ GetRecordCountFails
    \/ GetRecordCountZero
    \/ GetRecordCountPositive
    \/ DownloadPageFails
    \/ DownloadPage
    \/ MergeAndReturn
    \/ ProcessMarketSkip
    \/ ProcessMarketRaises
    \/ ProcessMarket
    \/ GenerateMap

Spec == Init /\ [][Next]_vars

\* download_market_data runs on while it has a step to take: the script is
\* one thread that nothing suspends, and a request returns or raises
SpecFair ==
    /\ Spec
    /\ WF_vars(DownloadPage \/ DownloadPageFails)
    /\ WF_vars(MergeAndReturn)

\* ------------------------------------------------------------ SpecClean
\* The cleaner, the aggregators and the renderer applied to every collection
\* of at most MaxLen records: main from the point where the last market's
\* collection has been returned.
InitClean ==
    /\ pc = "process"
    /\ market = Len(Markets)
    /\ total_count = 0
    /\ offset = 0
    /\ all_features = <<>>
    /\ wire = <<>>
    /\ errors = <<>>
    /\ geojson \in {FeatureCollection(s) : s \in SeqsOf(Records, 0, MaxLen)}
    /\ cleaned = PyNone
    /\ all_pierwotny = <<>>
    /\ all_wtorny = <<>>
    /\ map_features = <<>>
    /\ recleaned = PyNone
    /\ units_loaded = <<>>
    /\ map_loaded = <<>>
    /\ exception = ""
    /\ OthersIdle

\* clean_data applied to a collection that clean_data produced
CleanAgain ==
    /\ pc = "done"
    /\ cleaned # PyNone
    /\ recleaned' = clean_data(cleaned)
    /\ pc' = "recleaned"
    /\ UNCHANGED <<market, fetchVars, geojson, dataVars, units_loaded, map_loaded,
                   mapVars, foldVars, exception>>

\* create_map.main: aggregate_by_unit_year applied to a loaded collection,
\* then create_map.py's create_map_html (the same rendering loop)
AggregateByUnitYear ==
    /\ pc = "recleaned"
    /\ units_loaded' = aggregate_by_unit_year(geojson, Markets[market])
    /\ map_loaded' = create_map_py_html(<<>>, units_loaded')
    /\ pc' = "aggregated"
    /\ UNCHANGED <<market, fetchVars, geojson, dataVars, recleaned, mapVars, foldVars,
                   exception>>

NextClean ==
    \/ ProcessMarketSkip
    \/ ProcessMarketRaises
    \/ ProcessMarket
    \/ GenerateMap
    \/ CleanAgain
    \/ AggregateByUnitYear

SpecClean == InitClean /\ [][NextClean]_vars

\* ------------------------------------------------------------ SpecMap
\* create_map.main on every pair of input files: each file is missing or
\* holds a collection of at most MaxFileLen records.
MapRecords == {R2, R5, R7, R9}
FileContents == {FeatureCollection(s) : s \in SeqsOf(MapRecords, 0, MaxFileLen)}

\* Path.exists()
Exists(file) == file # PyNone

\* variant: the run stops only when both files are missing
FilesMissing_Both(fs) == ~Exists(fs.pierwotny) /\ ~Exists(fs.wtorny)
\* if not pierwotny_file.exists() or not wtorny_file.exists()
FilesMissing(fs) == ~Exists(fs.pierwotny) \/ ~Exists(fs.wtorny)

mainIdle ==
    /\ market = 1
    /\ total_count = 0
    /\ offset = 0
    /\ all_features = <<>>
    /\ wire = <<>>
    /\ errors = <<>>
    /\ geojson = PyNone
    /\ cleaned = PyNone
    /\ all_pierwotny = <<>>
    /\ all_wtorny = <<>>
    /\ map_features = <<>>
    /\ recleaned = PyNone
    /\ units_loaded = <<>>
    /\ map_loaded = <<>>
    /\ exception = ""

InitMap ==
    /\ pc = "map_main"
    /\ mainIdle
    /\ files \in [pierwotny : FileContents \cup {PyNone},
                  wtorny : FileContents \cup {PyNone}]
    /\ loaded = <<>>
    /\ pierwotny_agg = <<>>
    /\ wtorny_agg = <<>>
    /\ output_file = PyNone
    /\ fold_i = 0
    /\ fold_units = <<>>

mainVars == <<market, fetchVars, geojson, dataVars, probeVars, exception>>

\* a file is missing: the message is printed and main returns
CreateMapAborts ==
    /\ pc = "map_main"
    /\ FilesMissing(files)
    /\ pc' = "map_aborted"
    /\ UNCHANGED <<mainVars, mapVars, foldVars>>

\* load both files, aggregate both, render, write the document; load_geojson
\* raises FileNotFoundError on a file that is not there
CreateMapMain ==
    /\ pc = "map_main"
    /\ ~FilesMissing(files)
    /\ IF ~Exists(files.pierwotny)
       THEN /\ pc' = "crashed"
            /\ exception' = "FileNotFoundError"
            /\ UNCHANGED <<loaded, pierwotny_agg, wtorny_agg, output_file>>
       ELSE IF ~Exists(files.wtorny)
       THEN /\ pc' = "crashed"
            /\ exception' = "FileNotFoundError"
            /\ loaded' = <<"pierwotny">>
            /\ UNCHANGED <<pierwotny_agg, wtorny_agg, output_file>>
       ELSE /\ loaded' = <<"pierwotny", "wtorny">>
            /\ pierwotny_agg' = aggregate_by_unit_year(files.pierwotny, "pierwotny")
            /\ wtorny_agg' = aggregate_by_unit_year(files.wtorny, "wtorny")
            /\ output_file' = create_map_py_html(pierwotny_agg', wtorny_agg')
            /\ pc' = "map_done"
            /\ UNCHANGED exception
    /\ UNCHANGED <<market, fetchVars, geojson, dataVars, probeVars, files, foldVars>>

NextMap ==
    \/ CreateMapAborts
    \/ CreateMapMain

SpecMap == InitMap /\ [][NextMap]_vars

\* ------------------------------------------------------------ SpecFold
\* The three grouping loops taken one record at a time: aggregate_for_map,
\* aggregate_by_unit_year, and the Stage 2 loop of clean_data, which runs
\* over the records Stage 1 kept. pc names the loop, fold_i is the number
\* of records it has taken, fold_units the mapping it has built so far.
FoldLoops == {"aggregate_for_map", "aggregate_by_unit_year", "clean_data"}

\* the list the loop iterates
FoldInput ==
    IF pc = "clean_data" THEN cleaned_features(geojson.features, MIN_PRICE_M2)
    ELSE geojson.features

InitFold ==
    /\ pc \in FoldLoops
    /\ market \in 1..Len(Markets)
    /\ geojson \in {FeatureCollection(s) : s \in SeqsOf(Records, 0, MaxLen)}
    /\ pc = "clean_data" => ~CleanRaises(geojson.features)
    /\ total_count = 0
    /\ offset = 0
    /\ all_features = <<>>
    /\ wire = <<>>
    /\ errors = <<>>
    /\ cleaned = PyNone
    /\ all_pierwotny = <<>>
    /\ all_wtorny = <<>>
    /\ map_features = <<>>
    /\ recleaned = PyNone
    /\ units_loaded = <<>>
    /\ map_loaded = <<>>
    /\ exception = ""
    /\ OthersIdle

foldFrame == <<pc, market, fetchVars, geojson, dataVars, probeVars, mapVars, exception>>

\* aggregate_for_map: for f in geojson["features"]
AggregateForMapStep ==
    /\ pc = "aggregate_for_map"
    /\ fold_i < Len(FoldInput)
    /\ LET f == FoldInput[fold_i + 1]
       IN  fold_units' = AggStep(fold_units, f, f.properties, Markets[market], 2023)
    /\ fold_i' = fold_i + 1
    /\ UNCHANGED foldFrame

\* aggregate_by_unit_year: for feature in geojson.get("features", [])
AggregateByUnitYearStep ==
    /\ pc = "aggregate_by_unit_year"
    /\ fold_i < Len(FoldInput)
    /\ LET f == FoldInput[fold_i + 1]
       IN  fold_units' = AggStep(fold_units, f, Get(f, "properties", EmptyDict),
                                 Markets[market], 2024)
    /\ fold_i' = fold_i + 1
    /\ UNCHANGED foldFrame

\* clean_data: for f in cleaned_features
GroupingStep ==
    /\ pc = "clean_data"
    /\ fold_i < Len(FoldInput)
    /\ fold_units' = StatsStep(fold_units, FoldInput[fold_i + 1])
    /\ fold_i' = fold_i + 1
    /\ UNCHANGED foldFrame

\* the list is exhausted: the loop ends
FoldEnds ==
    /\ pc \in FoldLoops
    /\ fold_i = Len(FoldInput)
    /\ pc' = "folded"
    /\ UNCHANGED <<market, fetchVars, geojson, dataVars, probeVars, mapVars, exception,
                   foldVars>>

NextFold ==
    \/ AggregateForMapStep
    \/ AggregateByUnitYearStep
    \/ GroupingStep
    \/ FoldEnds

SpecFold == InitFold /\ [][NextFold]_vars

\* ============================================================ properties
\* ------------------------------------------------------------ vocabulary
\* the price is present (key there, not null) and at or above the floor
PriceAtFloor(f) ==
    /\ "sr_cena_m2" \in DOMAIN f.properties
    /\ f.properties.sr_cena_m2 # JsonNull
    /\ f.properties.sr_cena_m2 >= MIN_PRICE_M2

\* the group a record belongs to in download_data.py
GroupOf(f) ==
    <<IF "nazwa_jedn" \in DOMAIN f.properties THEN f.properties.nazwa_jedn
      ELSE "Nieznana",
      IF "data_zaw_year" \in DOMAIN f.properties THEN f.properties.data_zaw_year
      ELSE 2023>>

\* the records of group k among the records at or above the floor, in order
PostFloor(features, k) ==
    SelectSeq(features, LAMBDA f : PriceAtFloor(f) /\ GroupOf(f) = k)

LklCount(f) == IF "lkl_count" \in DOMAIN f.properties THEN f.properties.lkl_count ELSE 0

LklSum(features) == SumSeq([i \in 1..Len(features) |-> LklCount(features[i])])

PricesOf(features) == [i \in 1..Len(features) |-> features[i].properties.sr_cena_m2]

OfGroup(features, k) == SelectSeq(features, LAMBDA f : GroupOf(f) = k)

GroupsIn(features) == {GroupOf(features[i]) : i \in 1..Len(features)}

\* the market's mapping that ProcessMarket filled
Aggregated == IF Markets[market] = "pierwotny" THEN all_pierwotny ELSE all_wtorny

Processed == pc \in {"render", "done", "recleaned", "aggregated"} /\ cleaned # PyNone

\* ------------------------------------------------------------ C1
\* C1: a record whose price is absent or below the floor never appears in
\* clean_data's output and adds to no group's transaction sum or price list;
\* Stage 1 keeps a record iff its price is present and >= the floor.
C1_FloorBeforeGrouping ==
    Processed =>
        /\ \A i \in 1..Len(cleaned.features) : PriceAtFloor(cleaned.features[i])
        /\ cleaned_features(geojson.features, MIN_PRICE_M2)
               = SelectSeq(geojson.features, PriceAtFloor)
        /\ \A i \in 1..Len(Aggregated) :
              LET e == Aggregated[i]
                  own == PostFloor(geojson.features, e.key)
              IN  /\ e.val.transakcje = LklSum(own)
                  /\ e.val.ceny_m2 = PricesOf(own)

\* a cleaned run whose input held a record below the floor, a record without
\* a price and records that were kept
C1_Witness ==
    /\ pc = "done"
    /\ cleaned # PyNone
    /\ \E i \in 1..Len(geojson.features) : geojson.features[i] = R3
    /\ \E i \in 1..Len(geojson.features) : geojson.features[i] = R7
    /\ Len(cleaned.features) = 1
    /\ Len(all_wtorny) = 1

\* ------------------------------------------------------------ C2
\* C2: Stage 2 is all-or-nothing per (unit, year): the group's sum is the sum
\* of lkl_count over its post-floor records; at or above the minimum every
\* post-floor record of the group is in the output, below it none is
\* (counts 3 and 4 with minimum 8: nothing of the group is left).
C2_GroupAllOrNothing ==
    /\ Processed =>
          \A k \in GroupsIn(geojson.features) :
              LET own == PostFloor(geojson.features, k)
              IN  IF LklSum(own) >= MIN_TRANSACTIONS_PER_YEAR
                  THEN OfGroup(cleaned.features, k) = own
                  ELSE OfGroup(cleaned.features, k) = <<>>
    /\ (Processed /\ geojson.features = <<R1, R2, R3>>) =>
          /\ cleaned.features = <<R1, R2>>
          /\ clean_data_with(geojson, MIN_PRICE_M2, 8).features = <<>>

\* one group (two post-floor records, sum 4) dropped whole, another kept
C2_Witness ==
    /\ pc = "done"
    /\ geojson.features = <<R1, R4, R5>>
    /\ cleaned.features = <<R5>>

\* ------------------------------------------------------------ C3
\* a is num/den rounded to the nearest integer, a tie going to the even one
NearestTiesEven(a, num, den) ==
    /\ 2 * (a * den - num) <= den
    /\ 2 * (num - a * den) <= den
    /\ (2 * (a * den - num) = den \/ 2 * (num - a * den) = den) => a % 2 = 0

\* the groups of a mapping that have a geometry, in order
WithGeometry(data) == SelectSeq(data, LAMBDA e : e.val.geometry # PyNone)

RenderedRight(rendered, data) ==
    LET shown == WithGeometry(data)
    IN  /\ Len(rendered) = Len(shown)
        /\ \A i \in 1..Len(shown) :
              LET u == shown[i].val
                  r == rendered[i].properties
              IN  /\ r.nazwa = u.nazwa /\ r.rok = u.rok
                  /\ r.transakcje = u.transakcje
                  /\ IF u.ceny_m2 = <<>> THEN r.srednia_cena_m2 = 0
                     ELSE NearestTiesEven(r.srednia_cena_m2, SumSeq(u.ceny_m2),
                                          Len(u.ceny_m2))

\* C3 (as amended): for every aggregated group that has a geometry, the
\* rendered average price is the unweighted arithmetic mean of the group's
\* collected prices rounded to the nearest whole number (ties to even), and
\* zero when the price list is empty; records (A,2024,8000,3),
\* (A,2024,12000,4), (A,2024,3000,10) give one group with 7 transactions and
\* average price 10000.
C3_RenderedAverageRounded ==
    /\ pc \in {"done", "recleaned", "aggregated"} => RenderedRight(map_features, Aggregated)
    /\ pc = "aggregated" => RenderedRight(map_loaded, units_loaded)
    /\ (pc = "done" /\ geojson.features = <<R1, R2, R3>>) =>
          /\ Len(map_features) = 1
          /\ map_features[1].properties.transakcje = 7
          /\ map_features[1].properties.srednia_cena_m2 = 10000

\* a mean that is no whole number (10000.5) and a group with an empty price list
C3_Witness ==
    /\ pc = "aggregated"
    /\ geojson.features = <<R2, R4, R10>>
    /\ Len(map_features) = 1
    /\ map_features[1].properties.srednia_cena_m2 = 10000
    /\ Len(map_loaded) = 2
    /\ map_loaded[2].properties.transakcje = 6
    /\ map_loaded[2].properties.srednia_cena_m2 = 0

\* C3 (as claimed): the rendered average price of every rendered group is
\* exactly the arithmetic mean of its price list.
C3_RenderedAverageIsMean ==
    pc = "done" =>
        \A i \in 1..Len(map_features) :
            LET u == WithGeometry(Aggregated)[i].val
            IN  map_features[i].properties.srednia_cena_m2 * Len(u.ceny_m2)
                    = SumSeq(u.ceny_m2)

\* ------------------------------------------------------------ C9
\* C9: clean_data applied to clean_data's output gives the identical
\* collection: the same records in the same order, nothing removed.
C9_CleanIdempotent ==
    pc \in {"recleaned", "aggregated"} => recleaned = cleaned

\* two groups and three records survive the first pass
C9_Witness ==
    /\ pc = "recleaned"
    /\ geojson.features = <<R2, R5, R4>>
    /\ cleaned.features = <<R2, R4, R5>>
    /\ recleaned.features = <<R2, R4, R5>>

\* ------------------------------------------------------------ C10
Perms(n) == {p \in [1..n -> 1..n] : \A i, j \in 1..n : p[i] = p[j] => i = j}

Permuted(features, p) == [i \in 1..Len(features) |-> features[p[i]]]

Occurrences(s, v) == Cardinality({i \in 1..Len(s) : s[i] = v})

SameBag(s, t) ==
    /\ Len(s) = Len(t)
    /\ \A i \in 1..Len(s) : Occurrences(s, s[i]) = Occurrences(t, s[i])

\* the same keys, the same sum per key, the same multiset of prices per key
SameGroups(u, v) ==
    /\ DictKeys(u) = DictKeys(v)
    /\ \A k \in DictKeys(u) :
          /\ DictGet(u, k).transakcje = DictGet(v, k).transakcje
          /\ SameBag(DictGet(u, k).ceny_m2, DictGet(v, k).ceny_m2)

\* C10: aggregation does not depend on the order of the records: every
\* permutation of a record set gives the same keys, the same transaction sum
\* per key and the same multiset of prices per key, for aggregate_for_map and
\* for aggregate_by_unit_year.
C10_AggregationOrderInsensitive ==
    /\ pc = "process" =>
          \A p \in Perms(Len(geojson.features)) :
              LET shuffled == FeatureCollection(Permuted(geojson.features, p))
              IN  /\ SameGroups(aggregate_for_map(shuffled, Markets[market]),
                                aggregate_for_map(geojson, Markets[market]))
                  /\ SameGroups(aggregate_by_unit_year(shuffled, Markets[market]),
                                aggregate_by_unit_year(geojson, Markets[market]))
    /\ pc = "aggregated" =>
          /\ \A p \in Perms(Len(geojson.features)) :
                SameGroups(aggregate_by_unit_year(
                               FeatureCollection(Permuted(geojson.features, p)),
                               Markets[market]),
                           units_loaded)
          /\ \A p \in Perms(Len(cleaned.features)) :
                SameGroups(aggregate_for_map(
                               FeatureCollection(Permuted(cleaned.features, p)),
                               Markets[market]),
                           Aggregated)

\* two groups, one of them with two different prices and counts
C10_Witness ==
    /\ pc = "aggregated"
    /\ Len(units_loaded) = 2
    /\ \E i \in 1..Len(units_loaded) :
          /\ Len(units_loaded[i].val.ceny_m2) = 2
          /\ units_loaded[i].val.ceny_m2[1] # units_loaded[i].val.ceny_m2[2]
    /\ \E i \in 1..Len(all_wtorny) : Len(all_wtorny[i].val.ceny_m2) = 2

\* ------------------------------------------------------------ fetcher claims
\* the requests of this market that were answered with a body
Answered(i) == wire[i].ok

\* the number of records in the bodies received before request i
RecordsBefore(i) ==
    SumSeq([j \in 1..(i - 1) |-> IF Answered(j) THEN Fetched(wire[j].body) ELSE 0])

AllPagesFull ==
    \A i \in 1..Len(wire) : Answered(i) /\ Fetched(wire[i].body) > 0

\* download_market_data has returned a merged collection
Returned == pc = "process" /\ total_count > 0

\* ------------------------------------------------------------ C4
\* C4: with a total above zero and every page answered with at least one
\* record, the page requests go out at offsets 0, pageSize, 2*pageSize, ...
\* and stop once the offset reaches the total: ceil(total/pageSize) requests
\* (total 5000, page size 2000: offsets 0, 2000, 4000).
C4_SequentialOffsets ==
    /\ \A i \in 1..Len(wire) :
          /\ wire[i].offset < total_count
          /\ AllPagesFull => wire[i].offset = (i - 1) * batch_size
    /\ pc = "page" => offset < total_count
    /\ (Returned /\ AllPagesFull) =>
          /\ Len(wire) * batch_size >= total_count
          /\ (Len(wire) - 1) * batch_size < total_count
    /\ (Returned /\ AllPagesFull /\ total_count = 5000) =>
          [i \in 1..Len(wire) |-> wire[i].offset] = <<0, 2000, 4000>>

C4_Witness ==
    /\ Returned
    /\ AllPagesFull
    /\ total_count = 5000
    /\ Len(wire) = 3
    /\ Len(geojson.features) = 3

\* ------------------------------------------------------------ C5
\* C5: a page with zero records stops the pagination although the total has
\* not been reached: no request follows it; with total 5000 and an empty page
\* at offset 2000 only the records of the page at offset 0 are returned.
C5_EmptyPageStops ==
    /\ \A i \in 1..Len(wire) :
          (Answered(i) /\ Fetched(wire[i].body) = 0) =>
              /\ i = Len(wire)
              /\ pc # "page"
    /\ (Returned /\ total_count = 5000 /\ Len(wire) >= 2 /\ Answered(2)
            /\ Fetched(wire[2].body) = 0) =>
          /\ Len(wire) = 2
          /\ wire[2].offset = 2000
          /\ geojson.features = wire[1].body.features

C5_Witness ==
    /\ Returned
    /\ total_count = 5000
    /\ Len(wire) = 2
    /\ Answered(2)
    /\ wire[2].body = [features |-> <<>>]
    /\ Len(geojson.features) = 1

\* ------------------------------------------------------------ C6
\* C6: a failed page request is reported and ends the pagination of that
\* market: no request follows it, its offset is not requested again, and no
\* offset is requested twice.
C6_FailureHaltsNoRetry ==
    /\ \A i \in 1..Len(wire) :
          ~Answered(i) =>
              /\ i = Len(wire)
              /\ pc # "page"
              /\ errors = <<wire[i].offset>>
    /\ \A i, j \in 1..Len(wire) : wire[i].offset = wire[j].offset => i = j
    /\ AllPagesFull => errors = <<>>

C6_Witness ==
    /\ pc = "process"
    /\ Len(wire) = 2
    /\ ~Answered(2)
    /\ errors = <<2000>>

\* ------------------------------------------------------------ C7
\* C7: whatever stopped the pagination, the returned collection is the
\* concatenation, in page order, of the records of every page received: no
\* record dropped, reordered or removed as a duplicate; after a failure the
\* records of the earlier pages are still returned.
C7_ResultIsConcatenation ==
    Returned =>
        /\ Len(geojson.features) = RecordsBefore(Len(wire) + 1)
        /\ \A i \in 1..Len(wire) :
              Answered(i) =>
                  \A j \in 1..Fetched(wire[i].body) :
                      geojson.features[RecordsBefore(i) + j] = wire[i].body.features[j]

\* a failure at the third request after two pages holding the same record
C7_Witness ==
    /\ Returned
    /\ Len(wire) = 3
    /\ ~Answered(3)
    /\ geojson.features = <<R1, R1>>

\* ------------------------------------------------------------ C8
\* C8 (as amended): when the count-only query reports zero matching records,
\* download_market_data returns None (no collection at all) immediately and
\* issues no page request.
C8_ZeroCountReturnsNone ==
    (pc = "process" /\ total_count = 0) =>
        /\ geojson = PyNone
        /\ wire = <<>>
        /\ all_features = <<>>

C8_Witness ==
    /\ pc = "process"
    /\ total_count = 0
    /\ market = 2
    /\ geojson = PyNone

\* C8 (as claimed): when the count-only query reports zero matching records,
\* download_market_data returns an empty collection and issues no page
\* request.
C8_ZeroCountReturnsEmptyCollection ==
    (pc = "process" /\ total_count = 0) =>
        /\ geojson = FeatureCollection(<<>>)
        /\ wire = <<>>

\* ------------------------------------------------------------ C11
\* the minimum the module docstring and the page's cleaning note state
DOCUMENTED_MIN_TRANSACTIONS == 10

\* C11: as the docstring and the cleaning note say, every (unit, year) group
\* present in clean_data's output has a summed lkl_count of at least 10.
C11_KeptGroupsReachDocumentedMinimum ==
    Processed =>
        \A k \in GroupsIn(cleaned.features) :
            LklSum(OfGroup(cleaned.features, k)) >= DOCUMENTED_MIN_TRANSACTIONS

\* ------------------------------------------------------------ C12
\* the price is missing or malformed: no key, null, or zero
NoPrice(f) ==
    \/ "sr_cena_m2" \notin DOMAIN f.properties
    \/ f.properties.sr_cena_m2 = JsonNull
    \/ f.properties.sr_cena_m2 = 0

\* C12: a record without a usable price (key absent, null, or zero) is never an
\* error: clean_data completes on it and drops it at Stage 1.
C12_NoPriceIsNotAnError ==
    (pc # "process" /\ \E i \in 1..Len(geojson.features) : NoPrice(geojson.features[i])) =>
        /\ exception = ""
        /\ \A i \in 1..Len(cleaned.features) : ~NoPrice(cleaned.features[i])

\* ------------------------------------------------------------ C13
\* entry r of the payload renders group e of a mapping of the given market
RendersGroup(r, e, market_name) ==
    /\ r.properties.rynek = market_name
    /\ e.val.rynek = market_name
    /\ <<r.properties.nazwa, r.properties.rok>> = e.key
    /\ r.properties.transakcje = e.val.transakcje
    /\ r.geometry = e.val.geometry

\* C13 (as amended): the combined payload holds exactly one entry for every
\* group of the primary mapping and of the secondary mapping that has a
\* geometry (groups without one are left out), the primary ones first, each
\* tagged with its market; groups with the same (unit, year) in the two
\* markets stay two entries.
C13_PayloadIsUnionOfGroupsWithGeometry ==
    pc = "map_done" =>
        LET p == WithGeometry(pierwotny_agg)
            w == WithGeometry(wtorny_agg)
        IN  /\ Len(output_file) = Len(p) + Len(w)
            /\ \A i \in 1..Len(p) : RendersGroup(output_file[i], p[i], "pierwotny")
            /\ \A i \in 1..Len(w) :
                  RendersGroup(output_file[Len(p) + i], w[i], "wtorny")

\* the same (unit, year) in both markets, and a group without a geometry
C13_Witness ==
    /\ pc = "map_done"
    /\ files.pierwotny.features = <<R5, R9>>
    /\ files.wtorny.features = <<R5>>
    /\ Len(output_file) = 2
    /\ output_file[1].properties.rynek = "pierwotny"
    /\ output_file[2].properties.rynek = "wtorny"
    /\ output_file[1].properties.nazwa = output_file[2].properties.nazwa

\* C13 (as claimed): the payload holds one entry for every group of the two
\* mappings: entry count = |primary| + |secondary|.
C13_PayloadHoldsEveryGroup ==
    pc = "map_done" => Len(output_file) = Len(pierwotny_agg) + Len(wtorny_agg)

\* ------------------------------------------------------------ C14
\* C14: when either input file is missing, create_map.main notices it before
\* any processing: it returns without loading a file, aggregating or writing
\* the document.
C14_MissingFileAbortsEarly ==
    /\ (files.pierwotny = PyNone \/ files.wtorny = PyNone) =>
          /\ pc \in {"map_main", "map_aborted"}
          /\ loaded = <<>>
          /\ pierwotny_agg = <<>> /\ wtorny_agg = <<>>
          /\ output_file = PyNone
          /\ exception = ""
    /\ pc = "map_aborted" => (files.pierwotny = PyNone \/ files.wtorny = PyNone)

C14_Witness ==
    /\ pc = "map_aborted"
    /\ files.pierwotny # PyNone
    /\ files.pierwotny.features # <<>>
    /\ files.wtorny = PyNone

\* ------------------------------------------------------------ C15
\* a page request of the first market has failed
FirstMarketPageFailed == market = 1 /\ errors # <<>>

\* C15: a mid-pagination failure in the first market does not stop the run
\* of download_data.main: what was gathered is cleaned and aggregated and
\* the run goes on to the second market and the document, so main is never
\* ended by an exception while the first market with a failed page is being
\* processed.
C15_PageFailureDoesNotStopRun ==
    FirstMarketPageFailed => pc # "crashed"

\* ------------------------------------------------------------ C16
\* C16: a transport failure of a request to the remote service, the
\* count-only request included, is only logged: main is never ended by the
\* request's exception.
C16_TransportFailureNeverAborts ==
    ~(pc = "crashed" /\ exception = "RequestException")

\* ------------------------------------------------------------ C17
\* a step of one of the three loops took the record FoldInput[fold_i']
FoldSteps == pc \in FoldLoops /\ fold_i' = fold_i + 1

\* the (unit name, year) of a record, with the year the running loop assumes
\* for a record that has none
FoldKey(f) ==
    <<IF "nazwa_jedn" \in DOMAIN f.properties THEN f.properties.nazwa_jedn
      ELSE "Nieznana",
      IF "data_zaw_year" \in DOMAIN f.properties THEN f.properties.data_zaw_year
      ELSE IF pc = "aggregate_by_unit_year" THEN 2024 ELSE 2023>>

\* the accumulated transaction count of group k, 0 while there is no group
GroupSum(units, k) ==
    IF ~DictHas(units, k) THEN 0
    ELSE LET v == DictGet(units, k)
         IN  IF "transakcje" \in DOMAIN v THEN v.transakcje ELSE v.transactions

C17_Step ==
    FoldSteps =>
        LET f == FoldInput[fold_i + 1]
        IN  /\ \A k \in DictKeys(fold_units) :
                  /\ DictHas(fold_units', k)
                  /\ GroupSum(fold_units', k) >= GroupSum(fold_units, k)
            /\ DictKeys(fold_units') = DictKeys(fold_units) \cup {FoldKey(f)}
            /\ GroupSum(fold_units', FoldKey(f))
                  = GroupSum(fold_units, FoldKey(f)) + LklCount(f)
            /\ \A k \in DictKeys(fold_units') \ {FoldKey(f)} :
                  GroupSum(fold_units', k) = GroupSum(fold_units, k)

\* C17: in aggregate_for_map, aggregate_by_unit_year and the Stage 2 loop of
\* clean_data, no step lowers the sum of a group or drops a group, and a
\* record changes the sum of one group only, the group of its (unit name,
\* year), which grows by the record's lkl_count.
C17_GroupSumsOnlyGrow == [][C17_Step]_vars

\* a third record joins the first group while a second group exists
C17_Witness ==
    /\ pc = "clean_data"
    /\ geojson.features = <<R1, R5, R2>>
    /\ fold_i = 3
    /\ GroupSum(fold_units, <<"A", 2024>>) = 7
    /\ GroupSum(fold_units, <<"B", 2024>>) = 5

\* ------------------------------------------------------------ C18
C18_Step ==
    (FoldSteps /\ pc # "clean_data") =>
        LET f == FoldInput[fold_i + 1]
        IN  /\ \A k \in DictKeys(fold_units) :
                  /\ DictHas(fold_units', k)
                  /\ DictGet(fold_units', k).geometry = DictGet(fold_units, k).geometry
                  /\ DictGet(fold_units', k).rynek = DictGet(fold_units, k).rynek
                  /\ DictGet(fold_units', k).nazwa = DictGet(fold_units, k).nazwa
                  /\ DictGet(fold_units', k).rok = DictGet(fold_units, k).rok
            /\ ~DictHas(fold_units, FoldKey(f)) =>
                  /\ DictGet(fold_units', FoldKey(f)).geometry
                        = (IF "geometry" \in DOMAIN f THEN f.geometry ELSE PyNone)
                  /\ DictGet(fold_units', FoldKey(f)).rynek = Markets[market]

\* C18: the geometry and the market tag of a group are those of the first
\* record of its key; no later record changes them (nor the group's name
\* and year), even when the first record had no geometry and a later one has.
C18_GeometryFixedByFirstRecord == [][C18_Step]_vars

\* the group's first record had no geometry, its second record has one
C18_Witness ==
    /\ pc = "aggregate_by_unit_year"
    /\ geojson.features = <<R7, R5>>
    /\ fold_i = 2
    /\ Len(fold_units) = 1
    /\ fold_units[1].val.geometry = PyNone
    /\ fold_units[1].val.transakcje = 5

\* ------------------------------------------------------------ C19
CeilDiv(a, b) == (a + b - 1) \div b

\* the requests issued never exceed ceil(total_count / batch_size), and
\* while the loop runs the offset is batch_size times the requests issued
C19_Bound ==
    /\ Len(wire) <= CeilDiv(total_count, batch_size)
    /\ pc = "page" =>
          /\ offset = Len(wire) * batch_size
          /\ offset < total_count

\* an iteration of the loop leaves it or advances the offset by batch_size
C19_Iteration ==
    (pc = "page" /\ Len(wire') = Len(wire) + 1) =>
        \/ pc' = "merge"
        \/ offset' = offset + batch_size

\* C19: the pagination loop of download_market_data terminates whatever the
\* pages answer: every iteration breaks or advances the offset by
\* batch_size, at most ceil(total_count / batch_size) page requests are
\* issued, and the function returns.
C19_PaginationTerminates ==
    /\ []C19_Bound
    /\ [][C19_Iteration]_vars
    /\ (pc = "page" ~> pc = "process")

\* two full pages, then the third and last request allowed fails
C19_Witness ==
    /\ pc = "merge"
    /\ total_count = 5000
    /\ Len(wire) = 3
    /\ Answered(1) /\ Answered(2) /\ ~Answered(3)
    /\ Len(wire) = CeilDiv(total_count, batch_size)

\* ------------------------------------------------------------ C20
\* C20: clean_data conserves records: the input count is removed_price plus
\* removed_low_count plus the output count; the output holds only records
\* of the input, none more often than the input does, and the records of
\* one group are in the output in their input order.
C20_CleanConservesRecords ==
    Processed =>
        LET input == geojson.features
            output == cleaned.features
            stats == unit_year_stats(cleaned_features(input, MIN_PRICE_M2))
        IN  /\ Len(input) = removed_price(input, MIN_PRICE_M2)
                              + removed_low_count(stats, MIN_TRANSACTIONS_PER_YEAR)
                              + Len(output)
            /\ \A i \in 1..Len(output) :
                  /\ \E j \in 1..Len(input) : input[j] = output[i]
                  /\ Occurrences(output, output[i]) <= Occurrences(input, output[i])
            /\ \A k \in GroupsIn(output) :
                  OfGroup(output, k)
                      = SelectSeq(OfGroup(input, k),
                                  LAMBDA f : \E j \in 1..Len(output) : output[j] = f)

\* one record under the floor, one group under the minimum, one record kept
C20_Witness ==
    /\ Processed
    /\ geojson.features = <<R3, R1, R5>>
    /\ cleaned.features = <<R5>>
    /\ removed_price(geojson.features, MIN_PRICE_M2) = 1
    /\ removed_low_count(unit_year_stats(cleaned_features(geojson.features,
                                                           MIN_PRICE_M2)),
                         MIN_TRANSACTIONS_PER_YEAR) = 1

\* ------------------------------------------------------------ C21
\* C21: in download_data.main every group aggregate_for_map builds from
\* clean_data's output has a transaction sum of at least
\* MIN_TRANSACTIONS_PER_YEAR and a non-empty price list with every value at
\* least MIN_PRICE_M2, so every rendered average price is at least
\* MIN_PRICE_M2 and never the 0 of an empty price list.
C21_AggregatedGroupsMeetBothThresholds ==
    /\ Processed =>
          \A i \in 1..Len(Aggregated) :
              LET u == Aggregated[i].val
              IN  /\ u.transakcje >= MIN_TRANSACTIONS_PER_YEAR
                  /\ u.ceny_m2 # <<>>
                  /\ \A j \in 1..Len(u.ceny_m2) : u.ceny_m2[j] >= MIN_PRICE_M2
    /\ pc \in {"done", "recleaned", "aggregated"} =>
          \A i \in 1..Len(map_features) :
              map_features[i].properties.srednia_cena_m2 >= MIN_PRICE_M2

\* a group exactly at both thresholds is rendered, a record just under the
\* floor and a group under the minimum are gone
C21_Witness ==
    /\ pc = "done"
    /\ geojson.features = <<R5, R6, R1>>
    /\ Len(all_wtorny) = 1
    /\ all_wtorny[1].val.transakcje = MIN_TRANSACTIONS_PER_YEAR
    /\ all_wtorny[1].val.ceny_m2 = <<MIN_PRICE_M2>>
    /\ Len(map_features) = 1
    /\ map_features[1].properties.srednia_cena_m2 = MIN_PRICE_M2

====
